---------------------------- MODULE Spec2Model ----------------------------
(***************************************************************************)
(* The Airbnb listings pipeline: load_and_clean_data (data_prep.rs), the   *)
(* driver that calls it and then reads the cleaned file back (main.rs,     *)
(* decision_tree.rs), and preprocess_data (decision_tree.rs).              *)
(*                                                                         *)
(* Conventions.                                                            *)
(*  - Option<T>: None is <<>>, Some(v) is <<v>>.                           *)
(*  - A neighbourhood_group string is an opaque name; the model writes the *)
(*    i-th distinct name as the natural number i (only equality of names   *)
(*    is ever used by the code).                                           *)
(*  - Prices are f64 in the code; the model takes whole-number prices,     *)
(*    negative ones included.  Bounds are held as TWICE their value so     *)
(*    that 1.5 * iqr stays a whole number: a value v is compared as 2*v.   *)
(*  - A written CSV cell is a string (to_string renders decimal digits).   *)
(***************************************************************************)
EXTENDS Integers, Sequences, FiniteSets, TLC

VARIABLES
    pc,                       \* position in main / load_and_clean_data
    raw,                      \* the input rows read so far (the raw file)
    data,                     \* Vec<AirbnbRecord>
    neighbourhood_group_set,  \* HashSet<String>
    prices,                   \* Vec<f64>
    min_nights,               \* Vec<f64>
    num_reviews,              \* Vec<f64>
    availabilities,           \* Vec<f64>
    bounds,                   \* None, or Some of the four (lower, upper) pairs
    neighbourhood_group_map,  \* None, or Some HashMap<String, u8>
    price_percentiles,        \* None, or Some <<t1, t2>>
    header,                   \* header line of the cleaned file
    out,                      \* data rows written to the cleaned file
    result,                   \* load_and_clean_data: "Running", "Ok", "Err"
    panic,                    \* "" or the message of the panic that ended the process
    records,                  \* Vec<AirbnbCleanedRecord> returned by process_csv_file
    sample,                   \* argument of calc_iqr_and_bounds called on its own
    sample_bounds,            \* None, or Some of its result
    enc_set,                  \* a HashSet<String> of group names, encoded on its own
    enc_map,                  \* None, or Some of the map built from it
    pre_records,              \* argument of preprocess_data
    pre_out                   \* None, or Some of its result / panic

vars == <<pc, raw, data, neighbourhood_group_set, prices, min_nights, num_reviews,
          availabilities, bounds, neighbourhood_group_map, price_percentiles,
          header, out, result, panic, records,
          sample, sample_bounds, enc_set, enc_map, pre_records, pre_out>>

pipelineVars == <<pc, raw, data, neighbourhood_group_set, prices, min_nights,
                  num_reviews, availabilities, bounds, neighbourhood_group_map,
                  price_percentiles, header, out, result, panic, records>>

pureVars == <<sample, sample_bounds, enc_set, enc_map, pre_records, pre_out>>

(***************************************************************************)
(* Bounds of the model.                                                    *)
(***************************************************************************)
MaxRows == 3
MaxSample == 4
MaxGroups == 258
MaxPermuted == 3
MaxRecords == 2

(***************************************************************************)
(* Program constants.                                                      *)
(***************************************************************************)
U8Mod == 256
PreprocessCols == 5

None == <<>>
Some(v) == <<v>>
IsSome(o) == o /= <<>>
Unwrap(o) == o[1]

(***************************************************************************)
(* Small sequence helpers.                                                 *)
(***************************************************************************)
RECURSIVE Insert(_, _)
Insert(x, s) ==
    IF s = <<>> THEN <<x>>
    ELSE IF x <= Head(s) THEN <<x>> \o s
    ELSE <<Head(s)>> \o Insert(x, Tail(s))

\* sorted.sort_by(|a, b| a.partial_cmp(b)...): ascending
RECURSIVE SortAscending(_)
SortAscending(s) ==
    IF s = <<>> THEN <<>> ELSE Insert(Head(s), SortAscending(Tail(s)))

\* f64::round: half away from zero, of num / den (den > 0)
RoundHalfAway(num, den) ==
    IF num >= 0 THEN (2 * num + den) \div (2 * den)
    ELSE -((2 * (-num) + den) \div (2 * den))

\* `as usize` on an f64: saturating at 0
AsUsize(x) == IF x < 0 THEN 0 ELSE x

\* let rank = (percentile / 100.0 * (sorted.len() as f64 - 1.0)).round() as usize;
Rank(xs, percentile) ==
    AsUsize(RoundHalfAway(percentile * (Len(xs) - 1), 100))

\* sorted[rank] panics (index out of bounds) exactly when rank >= len
PercentilePanics(xs, percentile) == Rank(xs, percentile) >= Len(xs)

\* fn calculate_percentile (called only where it does not panic)
CalculatePercentile(xs, percentile) ==
    SortAscending(xs)[Rank(xs, percentile) + 1]

Max(a, b) == IF a >= b THEN a ELSE b

\* variant with the sign of the upper fence slipped: q3 - 1.5 * iqr
CalcIqrAndBoundsUpperSlip(values) ==
    LET q1 == CalculatePercentile(values, 25)
        q3 == CalculatePercentile(values, 75)
        iqr == q3 - q1
    IN  [lower2 |-> Max(2 * q1 - 3 * iqr, 0), upper2 |-> 2 * q3 - 3 * iqr]

\* the closure calc_iqr_and_bounds; both bounds doubled
CalcIqrAndBounds(values) ==
    LET q1 == CalculatePercentile(values, 25)
        q3 == CalculatePercentile(values, 75)
        iqr == q3 - q1
    IN  [lower2 |-> Max(2 * q1 - 3 * iqr, 0), upper2 |-> 2 * q3 + 3 * iqr]

BoundsPanics(values) ==
    PercentilePanics(values, 25) \/ PercentilePanics(values, 75)


(***************************************************************************)
(* Input rows.  A row is the six Option fields serde fills from one CSV    *)
(* line (an empty cell deserializes to None).                              *)
(***************************************************************************)
BaseRow ==
    [neighbourhood_group |-> Some(1), room_type |-> Some("Entire home/apt"),
     price |-> Some(100), minimum_nights |-> Some(2),
     number_of_reviews |-> Some(10), availability_365 |-> Some(365)]

InputRows ==
    {[BaseRow EXCEPT !.price = p, !.minimum_nights = m] :
        p \in {Some(50), Some(100), Some(150)}, m \in {Some(2), Some(30)}}
    \cup {[BaseRow EXCEPT !.price = None], [BaseRow EXCEPT !.minimum_nights = None]}
    \cup {[BaseRow EXCEPT !.neighbourhood_group = g] : g \in {None, Some(2)}}
    \cup {[BaseRow EXCEPT !.room_type = r] :
            r \in {None, Some("Private room"), Some("Shared room"), Some("Hotel room")}}
    \cup {[BaseRow EXCEPT !.number_of_reviews = n] : n \in {None, Some(50)}}
    \cup {[BaseRow EXCEPT !.availability_365 = a] : a \in {None, Some(180)}}

\* struct AirbnbRecord as deserialized from the row at position `line`
Record(row, line) ==
    [line |-> line,
     neighbourhood_group |-> row.neighbourhood_group,
     room_type |-> row.room_type,
     price |-> row.price,
     minimum_nights |-> row.minimum_nights,
     number_of_reviews |-> row.number_of_reviews,
     availability_365 |-> row.availability_365,
     neighbourhood_group_encoded |-> None,
     room_type_encoded |-> None,
     price_category |-> None]

\* vec.push(x) under `if let Some(x) = field`
PushSome(vec, field) == IF IsSome(field) THEN Append(vec, Unwrap(field)) ELSE vec

\* field.map_or(false, |v| v >= lower && v <= upper)
\* variant that retains an absent field: map_or(true, ...)
WithinOrRetained(field, b) ==
    IF IsSome(field)
    THEN 2 * Unwrap(field) >= b.lower2 /\ 2 * Unwrap(field) <= b.upper2
    ELSE TRUE

Within(field, b) ==
    IF IsSome(field)
    THEN 2 * Unwrap(field) >= b.lower2 /\ 2 * Unwrap(field) <= b.upper2
    ELSE FALSE

\* the closure given to data.retain
Retained(rec, b) ==
    /\ Within(rec.minimum_nights, b.min_nights)
    /\ Within(rec.number_of_reviews, b.num_reviews)
    /\ Within(rec.price, b.price)
    /\ Within(rec.availability_365, b.availability)

RECURSIVE Retain(_, _)
Retain(vec, b) ==
    IF vec = <<>> THEN <<>>
    ELSE (IF Retained(Head(vec), b) THEN <<Head(vec)>> ELSE <<>>)
         \o Retain(Tail(vec), b)

(***************************************************************************)
(* The encoding map: set.into_iter().enumerate().map(|(i, v)| (v, i as u8)) *)
(* A HashSet iterates in an unspecified order: every order for a set of at *)
(* most MaxPermuted names, the ascending and the descending one beyond.    *)
(***************************************************************************)
Range(s) == {s[i] : i \in 1..Len(s)}

AllOrders(S) ==
    {f \in [1..Cardinality(S) -> S] : \A i, j \in 1..Cardinality(S) : f[i] = f[j] => i = j}

Ascending(S) == SelectSeq([i \in 1..MaxGroups |-> i], LAMBDA g : g \in S)

Descending(S) ==
    SelectSeq([i \in 1..MaxGroups |-> MaxGroups + 1 - i], LAMBDA g : g \in S)

IterationOrders(S) ==
    IF Cardinality(S) <= MaxPermuted THEN AllOrders(S)
    ELSE {Ascending(S), Descending(S)}

\* index as u8
AsU8(index) == index % U8Mod

RECURSIVE GroupsOf(_)
GroupsOf(vec) ==
    IF vec = <<>> THEN {}
    ELSE (IF IsSome(Head(vec).neighbourhood_group)
          THEN {Unwrap(Head(vec).neighbourhood_group)} ELSE {})
         \cup GroupsOf(Tail(vec))

\* variant that encodes only the names of the records the filter kept
GroupsOfKept(all, kept) == GroupsOf(kept)

\* the set handed to into_iter(): the HashSet filled while loading
GroupsToEncode(all, kept) == all

BuildMap(order) ==
    [g \in Range(order) |-> AsU8((CHOOSE i \in 1..Len(order) : order[i] = g) - 1)]

(***************************************************************************)
(* AirbnbRecord::encode_features                                           *)
(***************************************************************************)
\* neighbourhood_group_map.get(group).cloned()
MapGet(map, group) == IF group \in DOMAIN map THEN Some(map[group]) ELSE None

EncodeRoomType(room_type) ==
    IF room_type = "Entire home/apt" THEN 0
    ELSE IF room_type = "Private room" THEN 1
    ELSE IF room_type = "Shared room" THEN 2
    ELSE 3

PriceCategory(price, percentiles) ==
    IF price < percentiles[1] THEN "low"
    ELSE IF price < percentiles[2] THEN "medium"
    ELSE "high"

EncodeFeatures(rec, map, percentiles) ==
    [rec EXCEPT
       !.neighbourhood_group_encoded =
           IF IsSome(rec.neighbourhood_group)
           THEN MapGet(map, Unwrap(rec.neighbourhood_group)) ELSE @,
       !.room_type_encoded =
           IF IsSome(rec.room_type)
           THEN Some(EncodeRoomType(Unwrap(rec.room_type))) ELSE @,
       !.price_category =
           IF IsSome(rec.price)
           THEN Some(PriceCategory(Unwrap(rec.price), percentiles)) ELSE @]

RECURSIVE ColumnOfPrices(_)
ColumnOfPrices(vec) ==
    IF vec = <<>> THEN <<>>
    ELSE PushSome(<<>>, Head(vec).price) \o ColumnOfPrices(Tail(vec))

\* variant that takes the percentiles over the prices of the kept records
PricePercentilesOfKept(all, kept) ==
    IF ColumnOfPrices(kept) = <<>>
    THEN <<CalculatePercentile(all, 33), CalculatePercentile(all, 66)>>
    ELSE <<CalculatePercentile(ColumnOfPrices(kept), 33),
           CalculatePercentile(ColumnOfPrices(kept), 66)>>

\* vec![calculate_percentile(&prices, 33.0), calculate_percentile(&prices, 66.0)]
PricePercentiles(all, kept) ==
    <<CalculatePercentile(all, 33), CalculatePercentile(all, 66)>>

(***************************************************************************)
(* Emission.                                                               *)
(***************************************************************************)
CleanedHeader ==
    <<"neighbourhood_group_encoded", "room_type_encoded", "price_category",
      "minimum_nights", "number_of_reviews">>

\* Option<u8/u64>::unwrap_or_default().to_string()
NumCell(o) == ToString(IF IsSome(o) THEN Unwrap(o) ELSE 0)

\* Option<String>::unwrap_or_default()
TextCell(o) == IF IsSome(o) THEN Unwrap(o) ELSE ""

\* the row written for a record; `line` is the position of its source row
WrittenRow(rec) ==
    [line |-> rec.line,
     neighbourhood_group_encoded |-> NumCell(rec.neighbourhood_group_encoded),
     room_type_encoded |-> NumCell(rec.room_type_encoded),
     price_category |-> TextCell(rec.price_category),
     minimum_nights |-> NumCell(rec.minimum_nights),
     number_of_reviews |-> NumCell(rec.number_of_reviews)]

\* if record.price.is_none() || record.neighbourhood_group.is_none() { continue; }
Skipped(rec) == rec.price = None \/ rec.neighbourhood_group = None

RECURSIVE WriteRows(_)
WriteRows(vec) ==
    IF vec = <<>> THEN <<>>
    ELSE (IF Skipped(Head(vec)) THEN <<>> ELSE <<WrittenRow(Head(vec))>>)
         \o WriteRows(Tail(vec))

RECURSIVE EncodeAll(_, _, _)
EncodeAll(vec, map, percentiles) ==
    IF vec = <<>> THEN <<>>
    ELSE <<EncodeFeatures(Head(vec), map, percentiles)>>
         \o EncodeAll(Tail(vec), map, percentiles)

(***************************************************************************)
(* process_csv_file: serde needs every field of AirbnbCleanedRecord among  *)
(* the header's columns (rename_all = "lowercase" leaves snake_case field  *)
(* names as they are).                                                     *)
(***************************************************************************)
RequiredFields ==
    {"neighbourhood_group_encoded", "neighbourhood_encoded", "room_type_encoded",
     "price_category", "minimum_nights", "number_of_reviews"}

MissingFields(hdr) == RequiredFields \ Range(hdr)

\* str::parse of a cell written by to_string
ParseNum(cell) == CHOOSE n \in 0..(U8Mod * U8Mod) : ToString(n) = cell

CleanedRecord(row) ==
    [neighbourhood_group_encoded |-> ParseNum(row.neighbourhood_group_encoded),
     neighbourhood_encoded |-> 0,
     room_type_encoded |-> ParseNum(row.room_type_encoded),
     price_category |-> row.price_category,
     minimum_nights |-> ParseNum(row.minimum_nights),
     number_of_reviews |-> ParseNum(row.number_of_reviews)]

(***************************************************************************)
(* The run of main: load_and_clean_data, then process_csv_file.            *)
(***************************************************************************)
PipelineStart(at) ==
    /\ pc = at
    /\ raw = <<>>
    /\ data = <<>>
    /\ neighbourhood_group_set = {}
    /\ prices = <<>>
    /\ min_nights = <<>>
    /\ num_reviews = <<>>
    /\ availabilities = <<>>
    /\ bounds = None
    /\ neighbourhood_group_map = None
    /\ price_percentiles = None
    /\ header = CleanedHeader
    /\ out = <<>>
    /\ result = "Running"
    /\ panic = ""
    /\ records = <<>>

PureIdle ==
    /\ sample = <<>>
    /\ sample_bounds = None
    /\ enc_set = {}
    /\ enc_map = None
    /\ pre_records = <<>>
    /\ pre_out = None

Init == PipelineStart("Loading") /\ PureIdle

\* one turn of `for result in rdr.deserialize()` on a well-formed row
ReadRow ==
    /\ pc = "Loading"
    /\ Len(raw) < MaxRows
    /\ \E row \in InputRows :
         LET record == Record(row, Len(raw) + 1) IN
         /\ raw' = Append(raw, row)
         /\ neighbourhood_group_set' =
              IF IsSome(record.neighbourhood_group)
              THEN neighbourhood_group_set \cup {Unwrap(record.neighbourhood_group)}
              ELSE neighbourhood_group_set
         /\ prices' = PushSome(prices, record.price)
         /\ min_nights' = PushSome(min_nights, record.minimum_nights)
         /\ num_reviews' = PushSome(num_reviews, record.number_of_reviews)
         /\ availabilities' = PushSome(availabilities, record.availability_365)
         /\ data' = Append(data, record)
    /\ UNCHANGED <<pc, bounds, neighbourhood_group_map, price_percentiles, header,
                   out, result, panic, records>>
    /\ UNCHANGED pureVars

\* `let record: AirbnbRecord = result?;` on a malformed row
ParseError ==
    /\ pc = "Loading"
    /\ Len(raw) < MaxRows
    /\ pc' = "Returned"
    /\ result' = "Err"
    /\ UNCHANGED <<raw, data, neighbourhood_group_set, prices, min_nights, num_reviews,
                   availabilities, bounds, neighbourhood_group_map, price_percentiles,
                   header, out, panic, records>>
    /\ UNCHANGED pureVars

\* the reader is exhausted
EndOfFile ==
    /\ pc = "Loading"
    /\ pc' = "Bounds"
    /\ UNCHANGED <<raw, data, neighbourhood_group_set, prices, min_nights, num_reviews,
                   availabilities, bounds, neighbourhood_group_map, price_percentiles,
                   header, out, result, panic, records>>
    /\ UNCHANGED pureVars

\* the four calls of calc_iqr_and_bounds
CalcBounds ==
    /\ pc = "Bounds"
    /\ IF \/ BoundsPanics(min_nights) \/ BoundsPanics(num_reviews)
          \/ BoundsPanics(prices) \/ BoundsPanics(availabilities)
       THEN /\ pc' = "Panicked"
            /\ panic' = "index out of bounds"
            /\ bounds' = bounds
       ELSE /\ pc' = "Filtering"
            /\ panic' = panic
            /\ bounds' = Some([min_nights |-> CalcIqrAndBounds(min_nights),
                               num_reviews |-> CalcIqrAndBounds(num_reviews),
                               price |-> CalcIqrAndBounds(prices),
                               availability |-> CalcIqrAndBounds(availabilities)])
    /\ UNCHANGED <<raw, data, neighbourhood_group_set, prices, min_nights, num_reviews,
                   availabilities, neighbourhood_group_map, price_percentiles,
                   header, out, result, records>>
    /\ UNCHANGED pureVars

\* data.retain(...)
Filter ==
    /\ pc = "Filtering"
    /\ data' = Retain(data, Unwrap(bounds))
    /\ pc' = "MapBuild"
    /\ UNCHANGED <<raw, neighbourhood_group_set, prices, min_nights, num_reviews,
                   availabilities, bounds, neighbourhood_group_map, price_percentiles,
                   header, out, result, panic, records>>
    /\ UNCHANGED pureVars

\* let neighbourhood_group_map = ...collect();
MakeMap ==
    /\ pc = "MapBuild"
    /\ \E order \in IterationOrders(GroupsToEncode(neighbourhood_group_set, data)) :
         neighbourhood_group_map' = Some(BuildMap(order))
    /\ pc' = "Thresholds"
    /\ UNCHANGED <<raw, data, neighbourhood_group_set, prices, min_nights, num_reviews,
                   availabilities, bounds, price_percentiles,
                   header, out, result, panic, records>>
    /\ UNCHANGED pureVars

\* let price_percentiles = vec![...];
CalcThresholds ==
    /\ pc = "Thresholds"
    /\ price_percentiles' = Some(PricePercentiles(prices, data))
    /\ pc' = "Encoding"
    /\ UNCHANGED <<raw, data, neighbourhood_group_set, prices, min_nights, num_reviews,
                   availabilities, bounds, neighbourhood_group_map,
                   header, out, result, panic, records>>
    /\ UNCHANGED pureVars

\* for record in &mut data { record.encode_features(...) }
Encode ==
    /\ pc = "Encoding"
    /\ data' = EncodeAll(data, Unwrap(neighbourhood_group_map), Unwrap(price_percentiles))
    /\ pc' = "Emitting"
    /\ UNCHANGED <<raw, neighbourhood_group_set, prices, min_nights, num_reviews,
                   availabilities, bounds, neighbourhood_group_map, price_percentiles,
                   header, out, result, panic, records>>
    /\ UNCHANGED pureVars

\* for record in data { ... wtr.write_record(...) }  Ok(())
Emit ==
    /\ pc = "Emitting"
    /\ out' = WriteRows(data)
    /\ result' = "Ok"
    /\ pc' = "Returned"
    /\ UNCHANGED <<raw, data, neighbourhood_group_set, prices, min_nights, num_reviews,
                   availabilities, bounds, neighbourhood_group_map, price_percentiles,
                   header, panic, records>>
    /\ UNCHANGED pureVars

RECURSIVE ParseRows(_)
ParseRows(rows) ==
    IF rows = <<>> THEN <<>>
    ELSE <<CleanedRecord(Head(rows))>> \o ParseRows(Tail(rows))

\* main: `let _ = load_and_clean_data(..); let records = process_csv_file(cleaned_file);`
ProcessCsvFile ==
    /\ pc = "Returned"
    /\ IF out /= <<>> /\ MissingFields(header) /= {}
       THEN /\ pc' = "Panicked"
            /\ panic' = "Error parsing CSV record"
            /\ records' = records
       ELSE /\ pc' = "SplitData"
            /\ panic' = panic
            /\ records' = ParseRows(out)
    /\ UNCHANGED <<raw, data, neighbourhood_group_set, prices, min_nights, num_reviews,
                   availabilities, bounds, neighbourhood_group_map, price_percentiles,
                   header, out, result>>
    /\ UNCHANGED pureVars

Next ==
    \/ ReadRow
    \/ ParseError
    \/ EndOfFile
    \/ CalcBounds
    \/ Filter
    \/ MakeMap
    \/ CalcThresholds
    \/ Encode
    \/ Emit
    \/ ProcessCsvFile

Spec == Init /\ [][Next]_vars


(***************************************************************************)
(* calc_iqr_and_bounds on its own: any sample of whole numbers.            *)
(***************************************************************************)
SampleValues == -3..3

Samples == UNION {[1..n -> SampleValues] : n \in 0..MaxSample}

BoundsInit ==
    /\ PipelineStart("Unit")
    /\ sample \in Samples
    /\ sample_bounds = None
    /\ enc_set = {}
    /\ enc_map = None
    /\ pre_records = <<>>
    /\ pre_out = None

ApplyBounds ==
    /\ sample_bounds = None
    /\ sample_bounds' =
         IF BoundsPanics(sample)
         THEN Some([panicked |-> TRUE, lower2 |-> 0, upper2 |-> 0])
         ELSE Some([panicked |-> FALSE,
                    lower2 |-> CalcIqrAndBounds(sample).lower2,
                    upper2 |-> CalcIqrAndBounds(sample).upper2])
    /\ UNCHANGED <<sample, enc_set, enc_map, pre_records, pre_out>>
    /\ UNCHANGED pipelineVars

SpecBounds == BoundsInit /\ [][ApplyBounds]_vars

(***************************************************************************)
(* The encoding map on its own: any number of distinct group names.        *)
(***************************************************************************)
EncInit ==
    /\ PipelineStart("Unit")
    /\ sample = <<>>
    /\ sample_bounds = None
    /\ \E n \in 0..MaxGroups : enc_set = 1..n
    /\ enc_map = None
    /\ pre_records = <<>>
    /\ pre_out = None

ApplyBuildMap ==
    /\ enc_map = None
    /\ \E order \in IterationOrders(GroupsToEncode(enc_set, <<>>)) :
         enc_map' = Some(BuildMap(order))
    /\ UNCHANGED <<sample, sample_bounds, enc_set, pre_records, pre_out>>
    /\ UNCHANGED pipelineVars

SpecEnc == EncInit /\ [][ApplyBuildMap]_vars

(***************************************************************************)
(* preprocess_data on its own (as tests::test_machine_learning_pipeline    *)
(* calls it): any short list of AirbnbCleanedRecord.                       *)
(***************************************************************************)
CleanedRecords ==
    [neighbourhood_group_encoded : {1, 2}, neighbourhood_encoded : {0},
     room_type_encoded : {0, 1}, price_category : {"low", "medium", "high", ""},
     minimum_nights : {2, 3}, number_of_reviews : {5, 10}]

\* the five features.push(...) of one turn of the loop
RowFeatures(rec) ==
    <<rec.neighbourhood_group_encoded, rec.neighbourhood_encoded,
      rec.room_type_encoded, rec.minimum_nights, rec.number_of_reviews>>

RECURSIVE PushFeatures(_)
PushFeatures(recs) ==
    IF recs = <<>> THEN <<>> ELSE RowFeatures(Head(recs)) \o PushFeatures(Tail(recs))

KnownCategory(c) == c \in {"high", "medium", "low"}

Target(c) == IF c = "high" THEN 2 ELSE IF c = "medium" THEN 1 ELSE 0

RECURSIVE PushTargets(_)
PushTargets(recs) ==
    IF recs = <<>> THEN <<>>
    ELSE <<Target(Head(recs).price_category)>> \o PushTargets(Tail(recs))

\* fn preprocess_data; normalize_features rewrites cells in place and keeps the
\* shape, so `cells` holds the values as pushed
PreprocessData(recs) ==
    IF \E i \in 1..Len(recs) : ~KnownCategory(recs[i].price_category)
    THEN [panic |-> "Unexpected price category", nrows |-> 0, ncols |-> 0,
          cells |-> <<>>, targets |-> <<>>]
    ELSE IF Len(PushFeatures(recs)) /= Len(recs) * PreprocessCols
    THEN [panic |-> "Error creating feature matrix", nrows |-> 0, ncols |-> 0,
          cells |-> <<>>, targets |-> <<>>]
    ELSE [panic |-> "", nrows |-> Len(recs), ncols |-> PreprocessCols,
          cells |-> PushFeatures(recs), targets |-> PushTargets(recs)]

PreInit ==
    /\ PipelineStart("Unit")
    /\ sample = <<>>
    /\ sample_bounds = None
    /\ enc_set = {}
    /\ enc_map = None
    /\ pre_records \in UNION {[1..n -> CleanedRecords] : n \in 0..MaxRecords}
    /\ pre_out = None

ApplyPreprocess ==
    /\ pre_out = None
    /\ pre_out' = Some(PreprocessData(pre_records))
    /\ UNCHANGED <<sample, sample_bounds, enc_set, enc_map, pre_records>>
    /\ UNCHANGED pipelineVars

SpecPre == PreInit /\ [][ApplyPreprocess]_vars


(***************************************************************************)
(* Properties.  What follows reads the state only; the columns, bounds and *)
(* thresholds it speaks of are recomputed from the raw rows.               *)
(***************************************************************************)
EmittedLines == {out[k].line : k \in 1..Len(out)}

\* the values present in column f of the rows, in row order
RawColumn(rows, f) ==
    LET present == SelectSeq(rows, LAMBDA r : r[f] /= None)
    IN  [i \in 1..Len(present) |-> present[i][f][1]]

FilteredFields == {"minimum_nights", "number_of_reviews", "price", "availability_365"}

\* the (lower, upper) pair of a filtered column computed from the whole input;
\* None for a column without a value
ColumnBounds(f) ==
    IF RawColumn(raw, f) = <<>> THEN None
    ELSE Some(CalcIqrAndBounds(RawColumn(raw, f)))

RawBounds ==
    [minimum_nights |-> ColumnBounds("minimum_nights"),
     number_of_reviews |-> ColumnBounds("number_of_reviews"),
     price |-> ColumnBounds("price"),
     availability_365 |-> ColumnBounds("availability_365")]

\* every filtered field present and lower <= v <= upper
PassesAllBounds(row, B) ==
    \A f \in FilteredFields :
        /\ row[f] /= None
        /\ B[f] /= None
        /\ B[f][1].lower2 <= 2 * row[f][1]
        /\ 2 * row[f][1] <= B[f][1].upper2

AnyFilteredFieldAbsent(row) ==
    \/ row.minimum_nights = None \/ row.number_of_reviews = None
    \/ row.price = None \/ row.availability_365 = None

\* C1: once load_and_clean_data has returned Ok, a data row is written for a
\* source record iff the record has price and neighbourhood_group present and
\* passes all four bound checks; a record with a filtered field absent is never
\* written; each surviving record gets exactly one row; nothing is written
\* before that.
C1_EmissionCompleteness ==
    /\ result /= "Ok" => out = <<>>
    /\ result = "Ok" =>
         /\ LET B == RawBounds IN
            \A i \in 1..Len(raw) :
              /\ i \in EmittedLines <=>
                   (/\ raw[i].price /= None
                    /\ raw[i].neighbourhood_group /= None
                    /\ PassesAllBounds(raw[i], B))
              /\ AnyFilteredFieldAbsent(raw[i]) => i \notin EmittedLines
         /\ \A k, l \in 1..Len(out) : out[k].line = out[l].line => k = l
         /\ EmittedLines \subseteq 1..Len(raw)

\* C1 witness: a finished run that wrote a row, dropped a fully present record
\* as an outlier, and skipped a record for its absent neighbourhood_group
C1_Witness ==
    /\ result = "Ok"
    /\ Len(out) >= 1
    /\ \E i \in 1..Len(raw) :
         /\ ~AnyFilteredFieldAbsent(raw[i])
         /\ raw[i].neighbourhood_group /= None
         /\ i \notin EmittedLines
    /\ \E j \in 1..Len(raw) :
         /\ raw[j].neighbourhood_group = None
         /\ PassesAllBounds(raw[j], RawBounds)
         /\ j \notin EmittedLines

ExpectedRoomCell(room_type) ==
    IF room_type = Some("Entire home/apt") THEN "0"
    ELSE IF room_type = Some("Private room") THEN "1"
    ELSE IF room_type = Some("Shared room") THEN "2"
    ELSE "3"

\* C3: every written row's room_type_encoded cell is 0 for "Entire home/apt",
\* 1 for "Private room", 2 for "Shared room" and 3 for every other room_type,
\* an absent one included.
C3_RoomTypeTotality ==
    \A k \in 1..Len(out) :
        /\ out[k].room_type_encoded \in {"0", "1", "2", "3"}
        /\ out[k].room_type_encoded = ExpectedRoomCell(raw[out[k].line].room_type)

SomeColumnEmpty ==
    \/ min_nights = <<>> \/ num_reviews = <<>> \/ prices = <<>> \/ availabilities = <<>>

\* C4: once the bounds step has run on an input one of whose numeric columns is
\* empty, load_and_clean_data has returned Err and nothing has panicked.
C4_EmptyInputIsAnError ==
    (SomeColumnEmpty /\ pc \notin {"Loading", "Bounds"}) =>
        (result = "Err" /\ panic = "")

ThresholdsOver(ps) == <<CalculatePercentile(ps, 33), CalculatePercentile(ps, 66)>>

ExpectedCategory(price, t) ==
    IF price < t[1] THEN "low" ELSE IF price < t[2] THEN "medium" ELSE "high"

CategoriesFollow(t) ==
    out /= <<>> => \A k \in 1..Len(out) :
        /\ out[k].price_category \in {"low", "medium", "high"}
        /\ out[k].price_category = ExpectedCategory(raw[out[k].line].price[1], t)

\* C5 as stated: the thresholds are the 33rd and 66th percentile of the prices
\* of the records that survived the outlier filter, and every written row's
\* price_category follows them.
C5_ThresholdsOverFiltered ==
    (price_percentiles /= None /\ ColumnOfPrices(data) /= <<>>) =>
        /\ price_percentiles = Some(ThresholdsOver(ColumnOfPrices(data)))
        /\ CategoriesFollow(ThresholdsOver(ColumnOfPrices(data)))

\* C5 amended: the thresholds are the 33rd and 66th percentile of the prices of
\* all loaded records that have a price (outliers included), and every written
\* row's price_category is low / medium / high by them.
C5_ThresholdsOverLoaded ==
    price_percentiles /= None =>
        LET t == ThresholdsOver(RawColumn(raw, "price")) IN
        /\ price_percentiles = Some(t)
        /\ CategoriesFollow(t)

\* C5 witness: a finished run where the filter removed a priced record, the
\* thresholds over the survivors would differ, and two categories were written
C5_Witness ==
    /\ result = "Ok"
    /\ ColumnOfPrices(data) /= <<>>
    /\ ThresholdsOver(ColumnOfPrices(data)) /= ThresholdsOver(RawColumn(raw, "price"))
    /\ \E k, l \in 1..Len(out) : out[k].price_category /= out[l].price_category

\* C7: after a malformed row the run is over: load_and_clean_data returned Err,
\* no data row was written, no statistics, filtering or encoding happened, and
\* the driver does not go on to read the cleaned file.
C7_ParseErrorAborts ==
    result = "Err" =>
        /\ out = <<>>
        /\ bounds = None /\ neighbourhood_group_map = None /\ price_percentiles = None
        /\ Len(data) = Len(raw)
        /\ pc = "Returned"

\* C10: after a successful run the header holds every column AirbnbCleanedRecord
\* needs, and process_csv_file returns one record per written row without
\* panicking.
C10_CleanedFileAccepted ==
    result = "Ok" =>
        /\ MissingFields(header) = {}
        /\ pc /= "Panicked"
        /\ pc = "SplitData" => Len(records) = Len(out)

StageRank(stage) ==
    CASE stage = "Loading" -> 0
      [] stage = "Bounds" -> 1
      [] stage = "Filtering" -> 2
      [] stage = "MapBuild" -> 3
      [] stage = "Thresholds" -> 4
      [] stage = "Encoding" -> 5
      [] stage = "Emitting" -> 6
      [] OTHER -> 7

RecordDropped == Len(data) < Len(raw)

\* C9 as stated: the stages run in order, none re-entered, and no record is
\* dropped before the four bounds, the encoding map and the two thresholds are
\* all finalized.
C9_AllStatisticsBeforeFilter ==
    [][/\ StageRank(pc') >= StageRank(pc)
       /\ RecordDropped' =>
            /\ bounds' /= None
            /\ neighbourhood_group_map' /= None
            /\ price_percentiles' /= None]_vars

RawGroups == {raw[i].neighbourhood_group[1] :
                i \in {j \in 1..Len(raw) : raw[j].neighbourhood_group /= None}}

\* C9 amended: the steps run in the order loading, bounds, filtering, encoding
\* map, thresholds, encoding, emitting, none re-entered, and nothing is read
\* after loading; no record is dropped before the whole input is read and the
\* four bounds are computed from it; the map and the thresholds are computed
\* after the filter, but from the group set and the prices of the whole input,
\* and before any record is encoded.
C9_TwoPassOrder ==
    [][/\ StageRank(pc') >= StageRank(pc)
       /\ (pc' /= pc /\ StageRank(pc) < 7) => StageRank(pc') > StageRank(pc)
       /\ pc /= "Loading" => raw' = raw
       /\ RecordDropped' => (StageRank(pc') >= 3 /\ bounds' /= None)
       /\ bounds' /= bounds =>
            /\ pc = "Bounds"
            /\ bounds' =
                 Some([min_nights |-> CalcIqrAndBounds(RawColumn(raw', "minimum_nights")),
                       num_reviews |-> CalcIqrAndBounds(RawColumn(raw', "number_of_reviews")),
                       price |-> CalcIqrAndBounds(RawColumn(raw', "price")),
                       availability |-> CalcIqrAndBounds(RawColumn(raw', "availability_365"))])
       /\ neighbourhood_group_map' /= neighbourhood_group_map =>
            /\ pc = "MapBuild"
            /\ DOMAIN neighbourhood_group_map'[1] = RawGroups'
       /\ price_percentiles' /= price_percentiles =>
            /\ pc = "Thresholds"
            /\ price_percentiles' = Some(ThresholdsOver(RawColumn(raw', "price")))
       /\ (\E i \in 1..Len(data') : data'[i].price_category /= None) =>
            (neighbourhood_group_map' /= None /\ price_percentiles' /= None)]_vars

\* C9 witness: the filter has just dropped a record of a three-row input with
\* two group names; map and thresholds are still to be computed
C9_Witness ==
    /\ pc = "MapBuild"
    /\ Len(raw) = 3
    /\ RecordDropped
    /\ Cardinality(RawGroups) = 2
    /\ neighbourhood_group_map = None

\* C6 as stated: whenever calc_iqr_and_bounds returns, lower <= upper.
C6_LowerAtMostUpper ==
    (sample_bounds /= None /\ ~sample_bounds[1].panicked) =>
        sample_bounds[1].lower2 <= sample_bounds[1].upper2

\* C6 amended: for a non-empty sample without negative values lower <= upper;
\* in general lower <= upper exactly when upper >= 0.
C6_LowerAtMostUpperNonNegative ==
    (sample_bounds /= None /\ ~sample_bounds[1].panicked) =>
        /\ (\A i \in 1..Len(sample) : sample[i] >= 0) =>
              sample_bounds[1].lower2 <= sample_bounds[1].upper2
        /\ sample_bounds[1].lower2 <= sample_bounds[1].upper2
              <=> sample_bounds[1].upper2 >= 0
        /\ sample_bounds[1].lower2 >= 0

\* C6 witness: bounds of a four-value non-negative sample with a positive spread
\* and a lower bound above zero
C6_Witness ==
    /\ sample_bounds /= None
    /\ ~sample_bounds[1].panicked
    /\ Len(sample) = 4
    /\ \A i \in 1..Len(sample) : sample[i] >= 0
    /\ sample_bounds[1].lower2 > 0
    /\ sample_bounds[1].lower2 < sample_bounds[1].upper2

\* C2: the map gives every name of the set exactly one code, no two names share
\* a code, and the codes are exactly 0..N-1.
C2_EncodingBijective ==
    enc_map /= None =>
        /\ DOMAIN enc_map[1] = enc_set
        /\ \A g, h \in enc_set : enc_map[1][g] = enc_map[1][h] => g = h
        /\ {enc_map[1][g] : g \in enc_set} = 0..(Cardinality(enc_set) - 1)

\* C8: for a non-empty list of records with known categories the feature matrix
\* has one row per record and exactly 4 columns, and the targets have one entry
\* per record, low -> 0, medium -> 1, high -> 2.
C8_FeatureMatrixShape ==
    (/\ pre_out /= None
     /\ pre_records /= <<>>
     /\ \A i \in 1..Len(pre_records) :
            pre_records[i].price_category \in {"low", "medium", "high"}) =>
        /\ pre_out[1].panic = ""
        /\ pre_out[1].nrows = Len(pre_records)
        /\ pre_out[1].ncols = 4
        /\ Len(pre_out[1].targets) = Len(pre_records)
        /\ \A i \in 1..Len(pre_records) :
              pre_out[1].targets[i] =
                 (CASE pre_records[i].price_category = "low" -> 0
                    [] pre_records[i].price_category = "medium" -> 1
                    [] OTHER -> 2)

=============================================================================
